---- MODULE Spec2Model ----
(***************************************************************************)
(* FunTrip backend: the trip store, the itinerary store and the itinerary  *)
(* generation pipeline (prompt construction, model call, extraction of the *)
(* JSON payload, schema validation, aggregation, versioned persistence),  *)
(* together with the HTTP handlers of app/api/trips.py and                 *)
(* app/api/itineraries.py that drive them.                                 *)
(*                                                                         *)
(* Every action is one HTTP request handled from start to end: under Spec  *)
(* requests are served one after the other.  The variable resp holds the   *)
(* response of the last request together with a record of what the request *)
(* was (its endpoint, caller and target), and the variable prev holds the  *)
(* tables as that request found them.                                      *)
(***************************************************************************)
EXTENDS Integers, Sequences, FiniteSets, TLC

\* ------------------------------------------------------------------ bounds

\* Number of trips ever created (trip ids are 1..MaxTripId).
MaxTripId == 2

\* Number of itinerary rows ever inserted (itinerary ids are 1..MaxItinId).
MaxItinId == 2

\* Longest reply text, in tokens, given to the ResponseExtractor on its own.
MaxTextLen == 4

\* ------------------------------------------------------------ basic values

\* Python's None and a present optional value.
None == <<>>
Some(v) == <<v>>
IsNone(o) == o = <<>>
Val(o) == o[1]

\* The registered users (ids of rows of the users table).
Users == {1, 2}

\* The caller id recorded for the unauthenticated guest endpoint.
Guest == 0

\* ------------------------------------------------------------------- dates
\* A datetime.date is <<year, month, day>>.

IsLeap(y) == (y % 4 = 0) /\ ((y % 100 # 0) \/ (y % 400 = 0))

DaysInMonth(y, m) ==
    IF m = 2 THEN (IF IsLeap(y) THEN 29 ELSE 28)
    ELSE IF m \in {4, 6, 9, 11} THEN 30 ELSE 31

RECURSIVE DaysBeforeMonth(_, _)
DaysBeforeMonth(y, m) ==
    IF m = 1 THEN 0 ELSE DaysBeforeMonth(y, m - 1) + DaysInMonth(y, m - 1)

DaysBeforeYear(y) ==
    (y - 1) * 365 + ((y - 1) \div 4) - ((y - 1) \div 100) + ((y - 1) \div 400)

\* date.toordinal(): the proleptic Gregorian ordinal of a date.
ToOrdinal(d) == DaysBeforeYear(d[1]) + DaysBeforeMonth(d[1], d[2]) + d[3]

\* (a - b).days for two dates.
DateDiffDays(a, b) == ToOrdinal(a) - ToOrdinal(b)

\* d + timedelta(days=1)
NextDay(d) ==
    IF d[3] < DaysInMonth(d[1], d[2]) THEN <<d[1], d[2], d[3] + 1>>
    ELSE IF d[2] < 12 THEN <<d[1], d[2] + 1, 1>>
    ELSE <<d[1] + 1, 1, 1>>

\* ------------------------------------------------------- text and numbers
\* A Python str that the code inspects character by character is a sequence
\* of one-character strings; any other text is a sequence of string pieces.

Digits == <<"0", "1", "2", "3", "4", "5", "6", "7", "8", "9">>

IsDigit(c) == \E i \in 1..10 : Digits[i] = c

DigitVal(c) == (CHOOSE i \in 1..10 : Digits[i] = c) - 1

Pad2(n) == <<Digits[((n \div 10) % 10) + 1], Digits[(n % 10) + 1]>>

Pad4(n) == Pad2(n \div 100) \o Pad2(n % 100)

\* str(n) for a natural number n.
RECURSIVE NatStr(_)
NatStr(n) == IF n < 10 THEN <<Digits[n + 1]>> ELSE NatStr(n \div 10) \o <<Digits[(n % 10) + 1]>>

\* int(s) for a non-empty sequence of digits.
RECURSIVE DigitsVal(_)
DigitsVal(s) ==
    IF Len(s) = 1 THEN DigitVal(s[1])
    ELSE DigitsVal(SubSeq(s, 1, Len(s) - 1)) * 10 + DigitVal(s[Len(s)])

AllDigits(s) == Len(s) > 0 /\ \A i \in 1..Len(s) : IsDigit(s[i])

\* d.strftime('%Y-%m-%d')
FormatDate(d) == Pad4(d[1]) \o <<"-">> \o Pad2(d[2]) \o <<"-">> \o Pad2(d[3])

\* The positions of '-' in s.
DashPositions(s) == {i \in 1..Len(s) : s[i] = "-"}

\* The year, month and day a valid date has; <<>> when they name no date.
MakeDate(y, m, d) ==
    IF y >= 1 /\ m \in 1..12 /\ d >= 1 /\ d <= DaysInMonth(y, m)
    THEN Some(<<y, m, d>>) ELSE None

\* datetime.strptime(s, '%Y-%m-%d').date(): Some(date), or None where
\* strptime raises ValueError.  %Y takes exactly four digits; %m and %d take
\* one or two digits (a single digit may not be 0).
StrptimeDate(s) ==
    LET dashes == DashPositions(s) IN
    IF Cardinality(dashes) # 2 THEN None
    ELSE
      LET p1 == CHOOSE i \in dashes : \A j \in dashes : i <= j
          p2 == CHOOSE i \in dashes : \A j \in dashes : i >= j
          ys == SubSeq(s, 1, p1 - 1)
          ms == SubSeq(s, p1 + 1, p2 - 1)
          ds == SubSeq(s, p2 + 1, Len(s))
      IN IF /\ AllDigits(ys) /\ Len(ys) = 4
            /\ AllDigits(ms) /\ Len(ms) \in {1, 2}
            /\ AllDigits(ds) /\ Len(ds) \in {1, 2}
         THEN MakeDate(DigitsVal(ys), DigitsVal(ms), DigitsVal(ds))
         ELSE None

\* The date pydantic reads from a JSON string for a `date` field: the strict
\* form YYYY-MM-DD only; None where validation reports a date_parsing error.
PydanticDate(s) ==
    IF /\ Len(s) = 10 /\ s[5] = "-" /\ s[8] = "-"
       /\ AllDigits(SubSeq(s, 1, 4)) /\ AllDigits(SubSeq(s, 6, 7))
       /\ AllDigits(SubSeq(s, 9, 10))
    THEN MakeDate(DigitsVal(SubSeq(s, 1, 4)), DigitsVal(SubSeq(s, 6, 7)),
                  DigitsVal(SubSeq(s, 9, 10)))
    ELSE None

\* f"{x:.2f}" for an amount of money held in cents.
Money2f(cents) == NatStr(cents \div 100) \o <<".">> \o Pad2(cents % 100)

\* ", ".join(list)
RECURSIVE JoinComma(_)
JoinComma(l) ==
    IF Len(l) = 0 THEN <<>>
    ELSE IF Len(l) = 1 THEN <<l[1]>>
    ELSE <<l[1], ", ">> \o JoinComma(Tail(l))

\* --------------------------------------------------------- PromptBuilder

\* get_trip_duration_days(start_date, end_date)
get_trip_duration_days(start_date, end_date) ==
    DateDiffDays(end_date, start_date) + 1

\* str(x).strip() != '' for a stay address held as one string piece.
NonBlank(str) == str \notin {"", " "}

\* generate_itinerary_prompt(trip): the prompt, as the record of every part of
\* the text that depends on the trip (the fixed instructions are left out).
\* trip.start_date and trip.end_date are dates here: the only caller that
\* holds strings, the guest flow, converts them in GuestTripWrapper.
generate_itinerary_prompt(trip, today) ==
    LET start_dt == trip.start_date
        end_dt == trip.end_date
        duration_days == get_trip_duration_days(start_dt, end_dt)
        prefs == trip.activity_preferences
        preferences_str ==
            IF ~IsNone(prefs) /\ Len(Val(prefs)) > 0
            THEN <<"User activity preferences: ">> \o JoinComma(Val(prefs)) \o <<". ">>
            ELSE <<>>
        budget_str ==
            IF ~IsNone(trip.budget_per_person)
            THEN <<"Total trip budget for all travelers: $">>
                 \o Money2f(Val(trip.budget_per_person) * trip.num_travelers)
                 \o <<" USD. ">>
            ELSE <<>>
        hasStay == ~IsNone(trip.stay_address) /\ NonBlank(Val(trip.stay_address))
        stay_address_str ==
            IF hasStay THEN <<"The user is staying at ", Val(trip.stay_address), ".">>
            ELSE <<>>
        accommodation ==
            IF hasStay THEN <<"at ", Val(trip.stay_address)>> ELSE <<"General city area">>
    IN [ today |-> FormatDate(today),
         name |-> trip.name,
         city |-> trip.city,
         num_travelers |-> trip.num_travelers,
         start_date |-> FormatDate(start_dt),
         end_date |-> FormatDate(end_dt),
         duration_days |-> duration_days,
         preferences_str |-> preferences_str,
         budget_str |-> budget_str,
         stay_address_str |-> stay_address_str,
         daily_plans_days |-> duration_days,
         example_duration_days |-> duration_days,
         example_day_dates |-> <<FormatDate(start_dt), FormatDate(NextDay(start_dt))>>,
         example_location |-> accommodation,
         budget_rule |-> <<"The total estimated cost of the itinerary MUST NOT exceed the total trip budget">> ]

\* A wrapper that does not copy the stay address.
WrapperWithoutStayAddress(trip_data) ==
    LET s == StrptimeDate(trip_data.start_date)
        e == StrptimeDate(trip_data.end_date)
    IN IF IsNone(s) \/ IsNone(e) THEN None
       ELSE Some([ start_date |-> Val(s),
                   end_date |-> Val(e),
                   city |-> trip_data.city,
                   num_travelers |-> trip_data.num_travelers,
                   budget_per_person |-> trip_data.budget_per_person,
                   activity_preferences |-> Some(trip_data.activity_preferences),
                   stay_address |-> None,
                   name |-> trip_data.name ])

\* GuestTripWrapper(trip_data): Some(trip-like record), or None where the
\* constructor raises ValueError (a date string strptime does not accept).
GuestTripWrapper(trip_data) ==
    LET s == StrptimeDate(trip_data.start_date)
        e == StrptimeDate(trip_data.end_date)
    IN IF IsNone(s) \/ IsNone(e) THEN None
       ELSE Some([ start_date |-> Val(s),
                   end_date |-> Val(e),
                   city |-> trip_data.city,
                   num_travelers |-> trip_data.num_travelers,
                   budget_per_person |-> trip_data.budget_per_person,
                   activity_preferences |-> Some(trip_data.activity_preferences),
                   stay_address |-> trip_data.stay_address,
                   name |-> trip_data.name ])

\* ------------------------------------------------------ the model's reply
\* The text of a reply is a sequence of tokens: a '{', a '}', the members of
\* a JSON object (everything between its outer braces, held as the dict
\* json.loads would build: entry Docs[d]), a JSON value that is no object
\* (a number, null, a list), or text that is no JSON (commentary, a markdown
\* fence).

LB == [k |-> "{", d |-> 0]
RB == [k |-> "}", d |-> 0]
TXT == [k |-> "text", d |-> 0]
JVAL == [k |-> "value", d |-> 0]
MEMBERS(i) == [k |-> "members", d |-> i]

Act(time, name, minutes, cost) ==
    [ time |-> time, name |-> name, description |-> None, location |-> None,
      estimated_duration_minutes |-> minutes, transportation |-> None,
      cost_usd |-> cost ]

Plan(n, day, acts) ==
    [ day_number |-> n, day_date |-> day, theme |-> None, activities |-> acts ]

Sep01 == <<"2", "0", "2", "5", "-", "0", "9", "-", "0", "1">>
Sep02 == <<"2", "0", "2", "5", "-", "0", "9", "-", "0", "2">>

\* The dicts the replies of this model hold.  A key that is absent (or null)
\* is None; money is in cents.
Docs ==
    << \* 1: two days, costs [10.00, none, 5.00], durations [30, 60, none]
       [ title |-> Some("Two days"), duration_days |-> Some(2), notes |-> None,
         daily_plans |-> Some(<<
            Plan(Some(1), Some(Sep01),
                 Some(<< Act(Some("9:00 AM"), Some("Museum"), Some(30), Some(1000)),
                         Act(Some("1:00 PM"), Some("Lunch"), Some(60), None) >>)),
            Plan(Some(2), Some(Sep02),
                 Some(<< Act(Some("9:00 AM"), Some("Park"), None, Some(500)) >>)) >>) ],
       \* 2: no title, an activity of 2 minutes that costs -1.00
       [ title |-> None, duration_days |-> Some(1), notes |-> None,
         daily_plans |-> Some(<<
            Plan(Some(1), Some(Sep01),
                 Some(<< Act(Some("9:00 AM"), Some("Walk"), Some(2), Some(-100)) >>)) >>) ],
       \* 3: one day, one free activity of 5 minutes
       [ title |-> Some("One day"), duration_days |-> Some(1), notes |-> Some("tips"),
         daily_plans |-> Some(<<
            Plan(Some(1), Some(Sep01),
                 Some(<< Act(Some("9:00 AM"), Some("Walk"), Some(5), Some(0)) >>)) >>) ],
       \* 4: {} : no member at all
       [ title |-> None, duration_days |-> None, notes |-> None, daily_plans |-> None ]
    >>

\* ------------------------------------------------------ ResponseExtractor

\* str.find(c): the 0-based index of the first c, or -1.
Find(text, c) ==
    LET hits == {i \in 1..Len(text) : text[i].k = c}
    IN IF hits = {} THEN -1 ELSE (CHOOSE i \in hits : \A j \in hits : i <= j) - 1

\* str.rfind(c): the 0-based index of the last c, or -1.
RFind(text, c) ==
    LET hits == {i \in 1..Len(text) : text[i].k = c}
    IN IF hits = {} THEN -1 ELSE (CHOOSE i \in hits : \A j \in hits : i >= j) - 1

\* text[a:b] for 0 <= a and 0 <= b.
Slice(text, a, b) == SubSeq(text, a + 1, IF b > Len(text) THEN Len(text) ELSE b)

\* An extraction that stops before the last '}'.
SliceBeforeLastBrace(generated_json_str) ==
    LET json_start == Find(generated_json_str, "{")
        json_end == RFind(generated_json_str, "}")
    IN IF json_start # -1 /\ json_end # -1 /\ json_end > json_start
       THEN Slice(generated_json_str, json_start, json_end)
       ELSE generated_json_str

\* An extraction that slices whenever there is a '{', closed or not.
SliceFromFirstBrace(generated_json_str) ==
    LET json_start == Find(generated_json_str, "{")
        json_end == RFind(generated_json_str, "}") + 1
    IN IF json_start # -1
       THEN Slice(generated_json_str, json_start, json_end)
       ELSE generated_json_str

\* The "clean JSON" step of both flows.
clean_json_str(generated_json_str) ==
    LET json_start == Find(generated_json_str, "{")
        json_end == RFind(generated_json_str, "}") + 1
    IN IF json_start # -1 /\ json_end # -1 /\ json_end > json_start
       THEN Slice(generated_json_str, json_start, json_end)
       ELSE generated_json_str

\* json.loads(s): [ok, dict, doc].  ok is FALSE where json.loads raises
\* JSONDecodeError; dict tells a JSON object from any other JSON value.
json_loads(s) ==
    IF Len(s) = 3 /\ s[1] = LB /\ s[2].k = "members" /\ s[3] = RB
    THEN [ok |-> TRUE, dict |-> TRUE, doc |-> Docs[s[2].d]]
    ELSE IF s = <<LB, RB>>
    THEN [ok |-> TRUE, dict |-> TRUE, doc |-> Docs[4]]
    ELSE IF s = <<JVAL>>
    THEN [ok |-> TRUE, dict |-> FALSE, doc |-> Docs[4]]
    ELSE [ok |-> FALSE, dict |-> FALSE, doc |-> Docs[4]]

\* ------------------------------------------------------- ContentValidator
\* ItineraryContent.model_validate(obj): the list of violations pydantic
\* reports (e.errors()), in field order; the empty list where obj is valid.

\* An Activity check that knows the required fields only.
ActivityErrorsWithoutBounds(a) ==
       (IF IsNone(a.time) THEN <<"activities.time: missing">> ELSE <<>>)
    \o (IF IsNone(a.name) THEN <<"activities.name: missing">> ELSE <<>>)

ActivityErrors(a) ==
       (IF IsNone(a.time) THEN <<"activities.time: missing">> ELSE <<>>)
    \o (IF IsNone(a.name) THEN <<"activities.name: missing">> ELSE <<>>)
    \o (IF ~IsNone(a.estimated_duration_minutes) /\ Val(a.estimated_duration_minutes) < 5
        THEN <<"activities.estimated_duration_minutes: greater_than_equal">> ELSE <<>>)
    \o (IF ~IsNone(a.cost_usd) /\ Val(a.cost_usd) < 0
        THEN <<"activities.cost_usd: greater_than_equal">> ELSE <<>>)

RECURSIVE ActivitiesErrors(_)
ActivitiesErrors(acts) ==
    IF Len(acts) = 0 THEN <<>>
    ELSE ActivityErrors(Head(acts)) \o ActivitiesErrors(Tail(acts))

DailyPlanErrors(p) ==
       (IF IsNone(p.day_number) THEN <<"daily_plans.day_number: missing">>
        ELSE IF Val(p.day_number) < 1 THEN <<"daily_plans.day_number: greater_than_equal">>
        ELSE <<>>)
    \o (IF IsNone(p.day_date) THEN <<"daily_plans.day_date: missing">>
        ELSE IF IsNone(PydanticDate(Val(p.day_date))) THEN <<"daily_plans.day_date: date_parsing">>
        ELSE <<>>)
    \o (IF IsNone(p.activities) THEN <<"daily_plans.activities: missing">>
        ELSE ActivitiesErrors(Val(p.activities)))

RECURSIVE DailyPlansErrors(_)
DailyPlansErrors(plans) ==
    IF Len(plans) = 0 THEN <<>>
    ELSE DailyPlanErrors(Head(plans)) \o DailyPlansErrors(Tail(plans))

ItineraryContentErrors(parsed) ==
    IF ~parsed.dict THEN <<"model_type">>
    ELSE LET doc == parsed.doc IN
       (IF IsNone(doc.title) THEN <<"title: missing">> ELSE <<>>)
    \o (IF IsNone(doc.duration_days) THEN <<"duration_days: missing">>
        ELSE IF Val(doc.duration_days) < 1 THEN <<"duration_days: greater_than_equal">>
        ELSE <<>>)
    \o (IF IsNone(doc.daily_plans) THEN <<"daily_plans: missing">>
        ELSE DailyPlansErrors(Val(doc.daily_plans)))

\* The ItineraryContent instance model_validate returns for a valid dict.
ActivityModel(a) ==
    [ time |-> Val(a.time), name |-> Val(a.name), description |-> a.description,
      location |-> a.location,
      estimated_duration_minutes |-> a.estimated_duration_minutes,
      transportation |-> a.transportation, cost_usd |-> a.cost_usd ]

DailyPlanModel(p) ==
    [ day_number |-> Val(p.day_number),
      day_date |-> Val(PydanticDate(Val(p.day_date))),
      theme |-> p.theme,
      activities |-> [i \in 1..Len(Val(p.activities)) |-> ActivityModel(Val(p.activities)[i])] ]

ItineraryContentModel(doc) ==
    [ title |-> Val(doc.title),
      duration_days |-> Val(doc.duration_days),
      daily_plans |-> [i \in 1..Len(Val(doc.daily_plans)) |-> DailyPlanModel(Val(doc.daily_plans)[i])],
      notes |-> doc.notes ]

\* json.loads(itinerary_content.model_dump_json()): every day_date becomes
\* its ISO string again.
model_dump_json(content) ==
    [ content EXCEPT !.daily_plans =
        [i \in 1..Len(content.daily_plans) |->
            [content.daily_plans[i] EXCEPT !.day_date = FormatDate(@)]] ]

\* itinerary_content.model_dump(): the dict of the fields, dates kept as dates.
model_dump(content) == content

\* ----------------------------------------------------- AggregateCalculator

\* All activities of all daily plans, in order.
RECURSIVE AllActivities(_)
AllActivities(plans) ==
    IF Len(plans) = 0 THEN <<>>
    ELSE Head(plans).activities \o AllActivities(Tail(plans))

\* "if x is not None" and "if x" for an optional number.
IsNotNone(o) == ~IsNone(o)
Truthy(o) == ~IsNone(o) /\ Val(o) # 0

\* The sum of field f over the activities whose value passes the test of the
\* loop: "is not None" (truthy = FALSE) or plain truthiness (truthy = TRUE).
RECURSIVE SumField(_, _, _)
SumField(acts, f, truthy) ==
    IF Len(acts) = 0 THEN 0
    ELSE LET x == Head(acts)[f]
             counts == IF truthy THEN Truthy(x) ELSE IsNotNone(x)
         IN (IF counts THEN Val(x) ELSE 0) + SumField(Tail(acts), f, truthy)

\* Totals that stop after the first day of the plan.
TotalsOfFirstDay(content) ==
    LET first == SubSeq(content.daily_plans, 1, 1)
    IN [ total_cost |-> SumField(AllActivities(first), "cost_usd", FALSE),
         total_duration |-> SumField(AllActivities(first),
                                     "estimated_duration_minutes", FALSE) ]

\* The totals of generate_itinerary (lines 283-290).
persisted_totals(content) ==
    [ total_cost |-> SumField(AllActivities(content.daily_plans), "cost_usd", FALSE),
      total_duration |-> SumField(AllActivities(content.daily_plans),
                                  "estimated_duration_minutes", FALSE) ]

\* The totals of generate_itinerary_for_guest (lines 226-233).
guest_totals(content) ==
    [ total_cost |-> SumField(AllActivities(content.daily_plans), "cost_usd", TRUE),
      total_duration |-> SumField(AllActivities(content.daily_plans),
                                  "estimated_duration_minutes", TRUE) ]

\* ------------------------------------------------------------- the inputs

\* datetime.now() on the day the requests are served.
Today == <<2025, 8, 1>>

\* int(datetime.now().timestamp()): the fake id of a guest itinerary.
NowTimestamp == 1754006400

\* Request bodies of POST /trips/ (TripCreate, after JSON decoding).
TripCreateInputs ==
    { [ name |-> "Paris", city |-> "Paris", stay_address |-> Some("12 Rue Cler"),
        start_date |-> <<2025, 9, 1>>, end_date |-> <<2025, 9, 3>>,
        num_travelers |-> 2, budget_per_person |-> Some(5000),
        activity_preferences |-> Some(<<"food", "art">>) ],
      [ name |-> "Nobody", city |-> "Oslo", stay_address |-> None,
        start_date |-> <<2025, 9, 1>>, end_date |-> <<2025, 9, 1>>,
        num_travelers |-> 0, budget_per_person |-> None,
        activity_preferences |-> None ] }

\* Request bodies of PUT /trips/{id} (TripUpdate): the fields the request
\* sets, and only those (model_dump(exclude_unset=True)).
TripUpdateInputs ==
    { [ end_date |-> <<2025, 8, 31>>, city |-> "Rome",
        stay_address |-> Some("1 Via Roma") ] }

\* Request bodies of POST /itineraries/generate/guest (GuestTripRequest).
GuestDate(y, m, d) == <<"2", "0", "2", y, "-">> \o m \o <<"-">> \o d

GuestInput(start, end, budget, prefs) ==
    [ name |-> "Paris", city |-> "Paris", stay_address |-> Some("12 Rue Cler"),
      start_date |-> start, end_date |-> end, num_travelers |-> 2,
      budget_per_person |-> budget, activity_preferences |-> prefs ]

GuestInputs ==
    { GuestInput(GuestDate("5", <<"0", "9">>, <<"0", "1">>),
                 GuestDate("5", <<"0", "9">>, <<"0", "3">>), Some(5000), <<"food", "art">>),
      \* across the end of February of a leap year, dates not zero-padded
      GuestInput(GuestDate("4", <<"2">>, <<"2", "8">>),
                 GuestDate("4", <<"3">>, <<"1">>), None, <<>>),
      \* end before start
      GuestInput(GuestDate("5", <<"0", "9">>, <<"0", "3">>),
                 GuestDate("5", <<"0", "8">>, <<"3", "1">>), None, <<>>),
      \* no such month
      GuestInput(GuestDate("5", <<"1", "3">>, <<"0", "1">>),
                 GuestDate("5", <<"1", "3">>, <<"0", "3">>), None, <<>>) }

\* What model.generate_content(prompt) and response.text can do: the call
\* raises; or it returns a response whose .text raises (no valid part); or it
\* returns a text.
Reply(raises, has_text, text) == [raises |-> raises, has_text |-> has_text, text |-> text]

Replies ==
    { Reply(TRUE, FALSE, <<>>),
      Reply(FALSE, FALSE, <<>>),
      Reply(FALSE, TRUE, <<TXT, LB, MEMBERS(1), RB, TXT>>),
      Reply(FALSE, TRUE, <<LB, MEMBERS(2), RB>>),
      Reply(FALSE, TRUE, <<TXT>>) }

\* The text of the exception a failed model call raises, of the one
\* response.text raises, and of the one a failed commit raises.
UpstreamErrorText == "429 quota exceeded"
NoTextErrorText == "response.text requires a valid Part"
StorageErrorText == "(psycopg2.OperationalError) server closed the connection"

\* ---------------------------------------------------------------- the state

VARIABLES
    users,          \* the ids of the rows of table users
    trips,          \* the rows of table trips
    itineraries,    \* the rows of table itineraries
    nextTripId,     \* the next value of the trips.id sequence
    nextItinId,     \* the next value of the itineraries.id sequence
    issued,         \* history: per stored trip, the versions given out, in order
    prev,           \* history: the tables as the last request found them
    resp,           \* the last request and its response
    applied,        \* a component of the pipeline run on its own: what it
                    \* was given and what it gave back
    inflight        \* per worker, the generation request it is serving and
                    \* how far generate_itinerary has got

vars == <<users, trips, itineraries, nextTripId, nextItinId, issued, prev, resp,
          applied, inflight>>

\* The tables, as one value.
Tables == [users |-> users, trips |-> trips, itineraries |-> itineraries]

\* Every request leaves in prev the tables it found.
Remember == prev' = Tables

TripIds == 1..MaxTripId
ItinIds == 1..MaxItinId

\* ---------------------------------------------------------------- responses

NoRequest ==
    [ op |-> "none", caller |-> Guest, target |-> 0,
      status |-> 0, detail |-> <<>>, items |-> <<>>,
      prompt |-> None, calls |-> 0, cause |-> "none" ]

\* The request an endpoint op received from caller u for the row id target
\* (0: the endpoint names no row).
Request(op, u, target) ==
    [NoRequest EXCEPT !.op = op, !.caller = u, !.target = target]

\* raise HTTPException(status_code=status, detail=detail)
HTTPError(req, status, detail, cause) ==
    [req EXCEPT !.status = status, !.detail = detail, !.cause = cause]

\* A successful response carrying the given resources.
Returned(req, status, items) == [req EXCEPT !.status = status, !.items = items]

\* The workers that serve requests at the same time, each with a database
\* session of its own (get_db), and a worker that serves none.
Workers == {1, 2}
Idle == [pc |-> "idle"]

\* The tables after create_all, before any request.
EmptyStore ==
    /\ users = Users
    /\ trips = {}
    /\ itineraries = {}
    /\ nextTripId = 1
    /\ nextItinId = 1
    /\ issued = [t \in TripIds |-> <<>>]
    /\ prev = [users |-> Users, trips |-> {}, itineraries |-> {}]
    /\ resp = NoRequest
    /\ inflight = [w \in Workers |-> Idle]

\* No component is run on its own.
NotApplied == [fn |-> "none"]

Init ==
    /\ EmptyStore
    /\ applied = NotApplied

\* ------------------------------------------------------ services/trip.py

\* The violations of TripCreate's field constraints (request rejected with
\* 422 before the handler runs).
TripCreateErrors(trip_in) ==
       (IF trip_in.name = "" THEN <<"name: string_too_short">> ELSE <<>>)
    \o (IF trip_in.city = "" THEN <<"city: string_too_short">> ELSE <<>>)
    \o (IF trip_in.num_travelers < 1 THEN <<"num_travelers: greater_than_equal">> ELSE <<>>)
    \o (IF ~IsNone(trip_in.budget_per_person) /\ Val(trip_in.budget_per_person) < 0
        THEN <<"budget_per_person: greater_than_equal">> ELSE <<>>)

\* The row create_trip inserts; id is the value the id sequence gives.
create_trip(trip_in, user_id, id) ==
    [ id |-> id,
      user_id |-> user_id,
      name |-> trip_in.name,
      city |-> trip_in.city,
      stay_address |-> trip_in.stay_address,
      start_date |-> trip_in.start_date,
      end_date |-> trip_in.end_date,
      num_travelers |-> trip_in.num_travelers,
      budget_per_person |-> trip_in.budget_per_person,
      activity_preferences |-> trip_in.activity_preferences ]

\* get_user_trips(db, user_id)
\* A listing that ignores the owner.
TripsOfEveryUser(db_trips, user_id) == db_trips

get_user_trips(db_trips, user_id) == {t \in db_trips : t.user_id = user_id}

\* A lookup that ignores the owner.
TripByIdOfAnyUser(db_trips, trip_id, user_id) == {t \in db_trips : t.id = trip_id}

\* get_trip_by_id(db, trip_id, user_id): the rows .first() chooses from
\* (at most one: id is the primary key); empty where it returns None.
get_trip_by_id(db_trips, trip_id, user_id) ==
    {t \in db_trips : t.id = trip_id /\ t.user_id = user_id}

\* An update that applies every field the request sets.
UpdateEveryFieldSet(db_trip, trip_update) ==
    [f \in DOMAIN db_trip |-> IF f \in DOMAIN trip_update THEN trip_update[f] ELSE db_trip[f]]

\* update_trip(db, db_trip, trip_update): the row after the update.
update_trip(db_trip, trip_update) ==
    LET allowed == (DOMAIN trip_update) \ {"city", "stay_address"}
    IN [f \in DOMAIN db_trip |-> IF f \in allowed THEN trip_update[f] ELSE db_trip[f]]

\* The rows of a set ordered by a key, as .order_by(key) returns them.
RECURSIVE OrderById(_)
OrderById(rows) ==
    IF rows = {} THEN <<>>
    ELSE LET m == CHOOSE x \in rows : \A y \in rows : x.id <= y.id
         IN <<m>> \o OrderById(rows \ {m})

\* An ordering by version from lowest to highest.
RECURSIVE OrderByVersionAsc(_)
OrderByVersionAsc(rows) ==
    IF rows = {} THEN <<>>
    ELSE LET m == CHOOSE x \in rows : \A y \in rows : x.version <= y.version
         IN <<m>> \o OrderByVersionAsc(rows \ {m})

RECURSIVE OrderByVersionDesc(_)
OrderByVersionDesc(rows) ==
    IF rows = {} THEN <<>>
    ELSE LET top == {x \in rows : \A y \in rows : x.version >= y.version}
             m == CHOOSE x \in top : \A y \in top : x.id <= y.id
         IN <<m>> \o OrderByVersionDesc(rows \ {m})

\* ------------------------------------------- services/itinerary_generator.py

NoExc == [type |-> "none", msg |-> <<>>]
Exc(type, msg) == [type |-> type, msg |-> msg]

\* What a service call did: the exception it raised (NoExc: it returned),
\* the row or dict it returned, the prompt it built, the number of calls of
\* model.generate_content, why it failed, and the rows it committed to table
\* itineraries.
Outcome(exc, result, prompt, calls, cause) ==
    [ exc |-> exc, result |-> result, prompt |-> prompt, calls |-> calls,
      cause |-> cause, committed |-> {} ]

\* The largest version of the table, whatever the trip.
LatestVersionOfAnyTrip(db_itins, trip_id) ==
    LET vs == {i.version : i \in db_itins}
    IN IF vs = {} THEN 0 ELSE CHOOSE v \in vs : \A w \in vs : v >= w

\* db.query(func.max(Itinerary.version)).filter(trip_id == id).scalar() or 0
latest_version(db_itins, trip_id) ==
    LET vs == {i.version : i \in {x \in db_itins : x.trip_id = trip_id}}
    IN IF vs = {} THEN 0 ELSE CHOOSE v \in vs : \A w \in vs : v >= w

\* A version that is not incremented.
VersionWithoutIncrement(db_itins, trip_id) ==
    LET vs == {i.version : i \in {x \in db_itins : x.trip_id = trip_id}}
    IN IF vs = {} THEN 1 ELSE CHOOSE v \in vs : \A w \in vs : v >= w

\* new_version (line 293)
new_version(db_itins, trip_id) == latest_version(db_itins, trip_id) + 1

\* A commit that writes the row and then reports a failure.
CommitThenFail(db_itinerary, prompt, commit_ok) ==
    [Outcome(Exc("RuntimeError", <<"Failed to generate itinerary: ", StorageErrorText>>),
             None, Some(prompt), 1, "storage")
        EXCEPT !.committed = {db_itinerary}]

\* db.add(db_itinerary); db.commit(); db.refresh(db_itinerary) (lines
\* 305-309): the row is committed and returned, or the commit fails, nothing
\* is written and "except Exception" raises RuntimeError.
add_and_commit(db_itinerary, prompt, commit_ok) ==
    IF commit_ok
    THEN [Outcome(NoExc, Some(db_itinerary), Some(prompt), 1, "none")
            EXCEPT !.committed = {db_itinerary}]
    ELSE Outcome(Exc("RuntimeError", <<"Failed to generate itinerary: ", StorageErrorText>>),
                 None, Some(prompt), 1, "storage")

\* The body of the try block of both flows up to the validated content:
\* Outcome with result = Some(content), or the exception that leaves the
\* except clauses in its place.  no_text_exc is the exception that leaves
\* "except Exception" where response.text raised; schema_prefix is the text
\* of the ValueError raised for a ValidationError.
ParsedReply(reply, prompt, no_text_exc, schema_prefix) ==
    IF ~reply.has_text
    THEN Outcome(no_text_exc, None, Some(prompt), 1, "no_text")
    ELSE LET clean == clean_json_str(reply.text)
             parsed == json_loads(clean)
         IN IF ~parsed.ok
            THEN Outcome(Exc("ValueError", <<"AI response was not valid JSON.">>),
                         None, Some(prompt), 1, "format")
            ELSE LET errors == ItineraryContentErrors(parsed)
                 IN IF errors # <<>>
                    THEN Outcome(Exc("ValueError", <<schema_prefix>> \o errors),
                                 None, Some(prompt), 1, "schema")
                    ELSE Outcome(NoExc, Some(ItineraryContentModel(parsed.doc)),
                                 Some(prompt), 1, "none")

\* generate_itinerary(db, trip_id).  id is the value the itineraries.id
\* sequence gives the new row; commit_ok tells whether db.commit() succeeds.
\* Where response.text raised, "except Exception" (line 319) evaluates
\* response.text once more in its print (line 321): the ValueError that
\* raises there is the exception that leaves the function.
generate_itinerary(db_trips, db_itins, trip_id, id, reply, commit_ok) ==
    LET found == {t \in db_trips : t.id = trip_id}
    IN IF found = {}
       THEN Outcome(Exc("ValueError", <<"Trip with ID not found.">>), None, None, 0, "trip_gone")
       ELSE
         LET trip == CHOOSE t \in found : TRUE
             prompt == generate_itinerary_prompt(trip, Today)
         IN IF reply.raises
            THEN Outcome(Exc("UpstreamError", <<UpstreamErrorText>>),
                         None, Some(prompt), 1, "upstream")
            ELSE
              LET p == ParsedReply(reply, prompt, Exc("ValueError", <<NoTextErrorText>>),
                          "AI response did not match expected itinerary schema: ")
              IN IF p.exc # NoExc THEN p
                 ELSE
                   LET itinerary_content == Val(p.result)
                       totals == persisted_totals(itinerary_content)
                       db_itinerary ==
                           [ id |-> id,
                             trip_id |-> trip.id,
                             user_id |-> trip.user_id,
                             version |-> new_version(db_itins, trip.id),
                             plan_data |-> model_dump_json(itinerary_content),
                             total_estimated_cost |-> totals.total_cost,
                             total_estimated_duration_minutes |-> totals.total_duration ]
                   IN add_and_commit(db_itinerary, prompt, commit_ok)

\* The identifiers and the version of a stored row.
StoredRowIdentity == [id |-> 1, trip_id |-> 1, user_id |-> 1, version |-> 2]

\* The fake identifiers and the version of a guest itinerary (lines 236-240).
GuestIdentity == [id |-> NowTimestamp, trip_id |-> 0, user_id |-> 0, version |-> 1]

\* generate_itinerary_for_guest(trip_data)
generate_itinerary_for_guest(trip_data, reply) ==
    LET wrapped == GuestTripWrapper(trip_data)
    IN IF IsNone(wrapped)
       THEN Outcome(Exc("ValueError", <<"time data does not match format '%Y-%m-%d'">>),
                    None, None, 0, "bad_date")
       ELSE
         LET mock_trip == Val(wrapped)
             prompt == generate_itinerary_prompt(mock_trip, Today)
         IN IF reply.raises
            THEN Outcome(Exc("UpstreamError", <<UpstreamErrorText>>),
                         None, Some(prompt), 1, "upstream")
            ELSE
              LET p == ParsedReply(reply, prompt,
                          Exc("RuntimeError",
                              <<"Failed to generate guest itinerary: ", NoTextErrorText>>),
                          "AI response did not match expected schema: ")
              IN IF p.exc # NoExc THEN p
                 ELSE
                   LET itinerary_content == Val(p.result)
                       totals == guest_totals(itinerary_content)
                   IN Outcome(NoExc,
                         Some([ id |-> GuestIdentity.id,
                                trip_id |-> GuestIdentity.trip_id,
                                user_id |-> GuestIdentity.user_id,
                                version |-> GuestIdentity.version,
                                plan_data |-> model_dump(itinerary_content),
                                total_estimated_cost |-> totals.total_cost,
                                total_estimated_duration_minutes |-> totals.total_duration ]),
                         Some(prompt), 1, "none")

\* ------------------------------------------------------------ api/trips.py

\* POST /trips/
create_new_trip(u, trip_in) ==
    /\ Remember
    /\ UNCHANGED <<applied, inflight>>
    /\ LET req == Request("create_new_trip", u, 0)
           errors == TripCreateErrors(trip_in)
       IN IF errors # <<>>
          THEN /\ resp' = HTTPError(req, 422, errors, "validation")
               /\ UNCHANGED <<users, trips, itineraries, nextTripId, nextItinId, issued>>
          ELSE /\ nextTripId <= MaxTripId
               /\ LET new_trip == create_trip(trip_in, u, nextTripId)
                  IN /\ trips' = trips \cup {new_trip}
                     /\ resp' = Returned(req, 201, <<new_trip>>)
               /\ nextTripId' = nextTripId + 1
               /\ UNCHANGED <<users, itineraries, nextItinId, issued>>

\* GET /trips/
read_user_trips(u) ==
    /\ Remember
    /\ UNCHANGED <<applied, inflight>>
    /\ /\ resp' = Returned(Request("read_user_trips", u, 0), 200,
                           OrderById(get_user_trips(trips, u)))
       /\ UNCHANGED <<users, trips, itineraries, nextTripId, nextItinId, issued>>

TripNotFound(req) == HTTPError(req, 404, <<"Trip not found or not authorized">>, "not_found")

\* GET /trips/{trip_id}
read_single_trip(u, trip_id) ==
    /\ Remember
    /\ UNCHANGED <<applied, inflight>>
    /\ LET req == Request("read_single_trip", u, trip_id)
           trip == get_trip_by_id(trips, trip_id, u)
       IN /\ resp' = IF trip = {} THEN TripNotFound(req)
                     ELSE Returned(req, 200, OrderById(trip))
          /\ UNCHANGED <<users, trips, itineraries, nextTripId, nextItinId, issued>>

\* PUT /trips/{trip_id}
update_single_trip(u, trip_id) ==
    /\ Remember
    /\ UNCHANGED <<applied, inflight>>
    /\ LET req == Request("update_single_trip", u, trip_id)
           found == get_trip_by_id(trips, trip_id, u)
       IN IF found = {}
          THEN /\ resp' = TripNotFound(req)
               /\ UNCHANGED <<users, trips, itineraries, nextTripId, nextItinId, issued>>
          ELSE \E trip_update \in TripUpdateInputs :
               LET db_trip == CHOOSE t \in found : TRUE
                   updated_trip == update_trip(db_trip, trip_update)
               IN /\ trips' = (trips \ {db_trip}) \cup {updated_trip}
                  /\ resp' = Returned(req, 200, <<updated_trip>>)
                  /\ UNCHANGED <<users, itineraries, nextTripId, nextItinId, issued>>

\* A delete that leaves the itineraries of the trip in place.
NoCascade(db_itins, db_trip) == {}

\* A delete that takes the itineraries of every trip with it.
CascadeOfEveryTrip(db_itins, db_trip) == db_itins

\* Trip.itineraries, cascade="all, delete-orphan": the rows db.delete(db_trip)
\* deletes with the trip.
CascadeOfTrip(db_itins, db_trip) == {i \in db_itins : i.trip_id = db_trip.id}

\* DELETE /trips/{trip_id}
delete_single_trip(u, trip_id) ==
    /\ Remember
    /\ UNCHANGED <<applied, inflight>>
    /\ LET req == Request("delete_single_trip", u, trip_id)
           found == get_trip_by_id(trips, trip_id, u)
       IN IF found = {}
          THEN /\ resp' = TripNotFound(req)
               /\ UNCHANGED <<users, trips, itineraries, nextTripId, nextItinId, issued>>
          ELSE LET db_trip == CHOOSE t \in found : TRUE
               IN /\ trips' = trips \ {db_trip}
                  /\ itineraries' = itineraries \ CascadeOfTrip(itineraries, db_trip)
                  /\ issued' = [issued EXCEPT ![trip_id] = <<>>]
                  /\ resp' = Returned(req, 204, <<>>)
                  /\ UNCHANGED <<users, nextTripId, nextItinId>>

\* ------------------------------------------------------ api/itineraries.py

\* The handler's "except Exception" of the guest endpoint (lines 50-55).
GuestErrorResponse(req, out) ==
    HTTPError(req, 500, <<"An error occurred while generating the guest itinerary.">>, out.cause)

\* POST /itineraries/generate/guest
generate_guest_itinerary(trip_data, reply) ==
    /\ Remember
    /\ UNCHANGED <<applied, inflight>>
    /\ \E out \in {generate_itinerary_for_guest(trip_data, reply)} :
         LET req == Request("generate_guest_itinerary", Guest, 0)
             sent == [req EXCEPT !.prompt = out.prompt, !.calls = out.calls]
         IN /\ resp' = IF out.exc = NoExc THEN Returned(sent, 200, <<Val(out.result)>>)
                       ELSE GuestErrorResponse(sent, out)
            /\ UNCHANGED <<users, trips, itineraries, nextTripId, nextItinId, issued>>

TripNoAccess(req) ==
    HTTPError(req, 404, <<"Trip not found or you do not have access to this trip.">>, "not_found")

\* The except clauses of generate_trip_itinerary (lines 79-91).
GenerateErrorResponse(req, out) ==
    IF out.exc.type = "ValueError"
    THEN HTTPError(req, 400, <<"Itinerary generation failed: ">> \o out.exc.msg, out.cause)
    ELSE HTTPError(req, 500,
            <<"An unexpected error occurred during itinerary generation. Please try again.">>,
            out.cause)

\* The ownership check of the itinerary endpoints addressed by trip id
\* (lines 68 and 104).
OwnedTrip(db_trips, trip_id, u) ==
    {t \in db_trips : t.id = trip_id /\ t.user_id = u}

\* POST /itineraries/generate/{trip_id}
generate_trip_itinerary(u, trip_id) ==
    /\ Remember
    /\ UNCHANGED <<applied, inflight>>
    /\ LET req == Request("generate_trip_itinerary", u, trip_id)
           trip == OwnedTrip(trips, trip_id, u)
       IN IF trip = {}
          THEN /\ resp' = TripNoAccess(req)
               /\ UNCHANGED <<users, trips, itineraries, nextTripId, nextItinId, issued>>
          ELSE \E reply \in Replies, commit_ok \in BOOLEAN :
               \E out \in {generate_itinerary(trips, itineraries, trip_id, nextItinId,
                                              reply, commit_ok)} :
            LET sent == [req EXCEPT !.prompt = out.prompt, !.calls = out.calls]
            IN /\ ~commit_ok => out.cause = "storage"
               /\ out.committed # {} => nextItinId <= MaxItinId
               /\ itineraries' = itineraries \cup out.committed
               /\ nextItinId' = IF out.committed # {} THEN nextItinId + 1 ELSE nextItinId
               /\ issued' = IF out.committed # {}
                            THEN [issued EXCEPT ![trip_id] =
                                    Append(@, (CHOOSE r \in out.committed : TRUE).version)]
                            ELSE issued
               /\ resp' = IF out.exc = NoExc THEN Returned(sent, 201, <<Val(out.result)>>)
                          ELSE GenerateErrorResponse(sent, out)
               /\ UNCHANGED <<users, trips, nextTripId>>

\* GET /itineraries/trip/{trip_id}
get_trip_itineraries(u, trip_id) ==
    /\ Remember
    /\ UNCHANGED <<applied, inflight>>
    /\ LET req == Request("get_trip_itineraries", u, trip_id)
           trip == OwnedTrip(trips, trip_id, u)
       IN /\ resp' = IF trip = {} THEN TripNoAccess(req)
                     ELSE Returned(req, 200,
                             OrderByVersionDesc({i \in itineraries : i.trip_id = trip_id}))
          /\ UNCHANGED <<users, trips, itineraries, nextTripId, nextItinId, issued>>

ItineraryNoAccess(req) ==
    HTTPError(req, 404,
        <<"Itinerary not found or you do not have access to this itinerary.">>, "not_found")

\* A lookup that ignores the owner.
ItineraryOfAnyUser(db_itins, itinerary_id, u) == {i \in db_itins : i.id = itinerary_id}

\* The lookup of the endpoints addressed by itinerary id (lines 126 and 143).
OwnedItinerary(db_itins, itinerary_id, u) ==
    {i \in db_itins : i.id = itinerary_id /\ i.user_id = u}

\* GET /itineraries/{itinerary_id}
get_single_itinerary(u, itinerary_id) ==
    /\ Remember
    /\ UNCHANGED <<applied, inflight>>
    /\ LET req == Request("get_single_itinerary", u, itinerary_id)
           itinerary == OwnedItinerary(itineraries, itinerary_id, u)
       IN /\ resp' = IF itinerary = {} THEN ItineraryNoAccess(req)
                     ELSE Returned(req, 200, OrderById(itinerary))
          /\ UNCHANGED <<users, trips, itineraries, nextTripId, nextItinId, issued>>

\* DELETE /itineraries/{itinerary_id}
delete_itinerary(u, itinerary_id) ==
    /\ Remember
    /\ UNCHANGED <<applied, inflight>>
    /\ LET req == Request("delete_itinerary", u, itinerary_id)
           itinerary == OwnedItinerary(itineraries, itinerary_id, u)
       IN IF itinerary = {}
          THEN /\ resp' = ItineraryNoAccess(req)
               /\ UNCHANGED <<users, trips, itineraries, nextTripId, nextItinId, issued>>
          ELSE /\ itineraries' = itineraries \ itinerary
               /\ resp' = Returned(req, 204, <<>>)
               /\ UNCHANGED <<users, trips, nextTripId, nextItinId, issued>>

\* ------------------------------------------------------- the specification

\* The ids a request can name: an id names no row before the sequence has
\* given it out and after its row was deleted.
NamedTripIds == TripIds
NamedItinIds == ItinIds

Next ==
    \/ \E u \in Users, trip_in \in TripCreateInputs : create_new_trip(u, trip_in)
    \/ \E u \in Users : read_user_trips(u)
    \/ \E u \in Users, t \in NamedTripIds : read_single_trip(u, t)
    \/ \E u \in Users, t \in NamedTripIds : update_single_trip(u, t)
    \/ \E u \in Users, t \in NamedTripIds : delete_single_trip(u, t)
    \/ \E u \in Users, t \in NamedTripIds : generate_trip_itinerary(u, t)
    \/ \E u \in Users, t \in NamedTripIds : get_trip_itineraries(u, t)
    \/ \E u \in Users, i \in NamedItinIds : get_single_itinerary(u, i)
    \/ \E u \in Users, i \in NamedItinIds : delete_itinerary(u, i)

Spec == Init /\ [][Next]_vars

\* The guest endpoint beside the requests that fill the store.
NextGuest ==
    \/ \E u \in Users, trip_in \in TripCreateInputs : create_new_trip(u, trip_in)
    \/ \E u \in Users, t \in NamedTripIds : update_single_trip(u, t)
    \/ \E u \in Users, t \in NamedTripIds : generate_trip_itinerary(u, t)
    \/ \E trip_data \in GuestInputs, reply \in Replies :
          generate_guest_itinerary(trip_data, reply)

SpecGuest == Init /\ [][NextGuest]_vars

\* ------------------------------------------ generations that run together
\* POST /itineraries/generate/{trip_id} taken statement by statement: each
\* query and each commit is one step, and the steps of two workers, and
\* whole requests of other endpoints, come in any order between them.  Every
\* statement sees what is committed when it runs (READ COMMITTED).

\* The handler's ownership check (api/itineraries.py line 68).
check_trip_access(w, u, trip_id) ==
    /\ Remember
    /\ UNCHANGED applied
    /\ inflight[w] = Idle
    /\ LET req == Request("generate_trip_itinerary", u, trip_id)
       IN IF OwnedTrip(trips, trip_id, u) = {}
          THEN /\ resp' = TripNoAccess(req)
               /\ UNCHANGED inflight
          ELSE /\ inflight' = [inflight EXCEPT ![w] = [pc |-> "checked", req |-> req]]
               /\ UNCHANGED resp
    /\ UNCHANGED <<users, trips, itineraries, nextTripId, nextItinId, issued>>

\* generate_itinerary up to the validated content (lines 260-281): the trip
\* is loaded by id, the prompt built, the model called and its reply parsed.
load_trip_and_generate(w, reply) ==
    /\ Remember
    /\ UNCHANGED applied
    /\ inflight[w].pc = "checked"
    /\ LET req == inflight[w].req
           found == {t \in trips : t.id = req.target}
       IN IF found = {}
          THEN /\ resp' = GenerateErrorResponse(req,
                              Outcome(Exc("ValueError", <<"Trip with ID not found.">>),
                                      None, None, 0, "trip_gone"))
               /\ inflight' = [inflight EXCEPT ![w] = Idle]
          ELSE \E trip \in found :
               \E p \in {ParsedReply(reply, generate_itinerary_prompt(trip, Today),
                                      Exc("ValueError", <<NoTextErrorText>>),
                                      "AI response did not match expected itinerary schema: ")} :
               LET sent == [req EXCEPT !.prompt = p.prompt, !.calls = p.calls]
               IN IF reply.raises
                  THEN /\ resp' = GenerateErrorResponse(
                                      [req EXCEPT !.prompt = p.prompt, !.calls = 1],
                                      Outcome(Exc("UpstreamError", <<UpstreamErrorText>>),
                                              None, p.prompt, 1, "upstream"))
                       /\ inflight' = [inflight EXCEPT ![w] = Idle]
                  ELSE IF p.exc # NoExc
                  THEN /\ resp' = GenerateErrorResponse(sent, p)
                       /\ inflight' = [inflight EXCEPT ![w] = Idle]
                  ELSE /\ inflight' = [inflight EXCEPT ![w] =
                              [ pc |-> "validated", req |-> sent, trip |-> trip,
                                itinerary_content |-> Val(p.result) ]]
                       /\ UNCHANGED resp
    /\ UNCHANGED <<users, trips, itineraries, nextTripId, nextItinId, issued>>

\* The query for the latest version (lines 292-293).
read_latest_version(w) ==
    /\ Remember
    /\ UNCHANGED applied
    /\ inflight[w].pc = "validated"
    /\ inflight' = [inflight EXCEPT ![w] =
           [ pc |-> "versioned", req |-> @.req, trip |-> @.trip,
             itinerary_content |-> @.itinerary_content,
             new_version |-> new_version(itineraries, @.trip.id) ]]
    /\ UNCHANGED <<users, trips, itineraries, nextTripId, nextItinId, issued, resp>>

\* The insert (lines 295-309).  The row takes trip_id and user_id from the
\* trip object loaded earlier.  fk_enforced tells whether the database
\* checks ForeignKey("trips.id") (PostgreSQL does; SQLite does not unless
\* PRAGMA foreign_keys is set, which database.py never does): where it
\* does, the insert of a row whose trip is gone fails like any commit.
insert_itinerary(w, commit_ok, fk_enforced) ==
    /\ Remember
    /\ UNCHANGED applied
    /\ inflight[w].pc = "versioned"
    /\ LET job == inflight[w]
           totals == persisted_totals(job.itinerary_content)
           db_itinerary ==
               [ id |-> nextItinId,
                 trip_id |-> job.trip.id,
                 user_id |-> job.trip.user_id,
                 version |-> job.new_version,
                 plan_data |-> model_dump_json(job.itinerary_content),
                 total_estimated_cost |-> totals.total_cost,
                 total_estimated_duration_minutes |-> totals.total_duration ]
           trip_stored == \E t \in trips : t.id = job.trip.id
           accepted == commit_ok /\ (trip_stored \/ ~fk_enforced)
       IN \E out \in {add_and_commit(db_itinerary, Val(job.req.prompt), accepted)} :
            /\ out.committed # {} => nextItinId <= MaxItinId
            /\ itineraries' = itineraries \cup out.committed
            /\ nextItinId' = IF out.committed # {} THEN nextItinId + 1 ELSE nextItinId
            /\ issued' = IF out.committed # {}
                         THEN [issued EXCEPT ![job.trip.id] = Append(@, job.new_version)]
                         ELSE issued
            /\ resp' = IF out.exc = NoExc THEN Returned(job.req, 201, <<Val(out.result)>>)
                       ELSE GenerateErrorResponse(job.req, out)
            /\ inflight' = [inflight EXCEPT ![w] = Idle]
    /\ UNCHANGED <<users, trips, nextTripId>>

\* The trips a worker can be asked about, and the replies of the model:
\* one that validates and one that does not.
ConcurrentReplies ==
    { Reply(FALSE, TRUE, <<TXT, LB, MEMBERS(1), RB, TXT>>),
      Reply(FALSE, TRUE, <<TXT>>) }

NextConcurrent ==
    \/ \E u \in Users, trip_in \in TripCreateInputs : create_new_trip(u, trip_in)
    \/ \E u \in Users, t \in NamedTripIds : delete_single_trip(u, t)
    \/ \E w \in Workers, u \in Users, t \in NamedTripIds : check_trip_access(w, u, t)
    \/ \E w \in Workers, reply \in ConcurrentReplies : load_trip_and_generate(w, reply)
    \/ \E w \in Workers : read_latest_version(w)
    \/ \E w \in Workers, commit_ok \in BOOLEAN, fk_enforced \in BOOLEAN :
          insert_itinerary(w, commit_ok, fk_enforced)

SpecConcurrent == Init /\ [][NextConcurrent]_vars

\* The ResponseExtractor on its own: a reply text is drawn, then the "clean
\* JSON" step of the two flows is run on it.
TextTokens == {LB, RB, TXT, MEMBERS(1)}

Texts == UNION {[1..n -> TextTokens] : n \in 0..MaxTextLen}

InitExtractor ==
    /\ EmptyStore
    /\ \E text \in Texts : applied = [fn |-> "response.text", text |-> text]

ExtractCandidate ==
    /\ applied.fn = "response.text"
    /\ applied' = [ fn |-> "clean_json_str", text |-> applied.text,
                    candidate |-> clean_json_str(applied.text) ]
    /\ UNCHANGED <<users, trips, itineraries, nextTripId, nextItinId, issued, prev, resp, inflight>>

\* json.loads on the candidate.
LoadCandidate ==
    /\ applied.fn = "clean_json_str"
    /\ applied' = [ fn |-> "json.loads", text |-> applied.text,
                    candidate |-> applied.candidate,
                    parsed |-> json_loads(applied.candidate) ]
    /\ UNCHANGED <<users, trips, itineraries, nextTripId, nextItinId, issued, prev, resp, inflight>>

NextExtractor ==
    \/ ExtractCandidate
    \/ LoadCandidate

SpecExtractor == InitExtractor /\ [][NextExtractor]_vars

\* The ContentValidator and the AggregateCalculator on their own: a dict is
\* drawn (what json.loads gave), ItineraryContent.model_validate is run on
\* it, and the totals of both flows are computed from the content it
\* accepts.
ActInputs ==
    { Act(time, name, minutes, cost) :
        time \in {None, Some("9:00 AM")}, name \in {None, Some("Walk")},
        minutes \in {None, Some(2), Some(5), Some(60)},
        cost \in {None, Some(-100), Some(0), Some(1000)} }

GoodAct == Act(Some("8:00 AM"), Some("Breakfast"), Some(30), Some(1000))

ActsInputs ==
    {None, Some(<<>>)}
    \cup {Some(<<a>>) : a \in ActInputs}
    \cup {Some(<<GoodAct, a>>) : a \in ActInputs}

Month13 == <<"2", "0", "2", "5", "-", "1", "3", "-", "0", "1">>

\* Plans that differ from a good first day in the day only.
DayInputs ==
    {Plan(n, Some(Sep01), Some(<<GoodAct>>)) : n \in {None, Some(0), Some(1), Some(2), Some(3)}}
    \cup {Plan(Some(1), d, Some(<<GoodAct>>)) : d \in {None, Some(Sep02), Some(Month13)}}

PlansInputs ==
    {None, Some(<<>>)}
    \cup {Some(<<p>>) : p \in DayInputs}
    \cup {Some(<<Plan(Some(1), Some(Sep01), a)>>) : a \in ActsInputs}
    \cup {Some(<<p, q>>) : p \in DayInputs, q \in DayInputs}

DocInputs ==
    { [ title |-> title, duration_days |-> duration_days, notes |-> None,
        daily_plans |-> plans ] :
        title \in {None, Some("Two days")},
        duration_days \in {None, Some(0), Some(1), Some(2)},
        plans \in PlansInputs }

InitValidator ==
    /\ EmptyStore
    /\ \E doc \in DocInputs : applied = [fn |-> "json.loads", doc |-> doc]

ValidateContent ==
    /\ applied.fn = "json.loads"
    /\ \E errors \in {ItineraryContentErrors([ok |-> TRUE, dict |-> TRUE, doc |-> applied.doc])} :
         applied' = [ fn |-> "model_validate", doc |-> applied.doc, errors |-> errors,
                      content |-> IF errors = <<>>
                                  THEN Some(ItineraryContentModel(applied.doc))
                                  ELSE None ]
    /\ UNCHANGED <<users, trips, itineraries, nextTripId, nextItinId, issued, prev, resp, inflight>>

ComputeTotals ==
    /\ applied.fn = "model_validate"
    /\ ~IsNone(applied.content)
    /\ applied' = [ fn |-> "totals", doc |-> applied.doc, errors |-> applied.errors,
                    content |-> applied.content,
                    persisted |-> persisted_totals(Val(applied.content)),
                    guest |-> guest_totals(Val(applied.content)) ]
    /\ UNCHANGED <<users, trips, itineraries, nextTripId, nextItinId, issued, prev, resp, inflight>>

NextValidator ==
    \/ ValidateContent
    \/ ComputeTotals

SpecValidator == InitValidator /\ [][NextValidator]_vars

\* ------------------------------------------- the PromptBuilder on its own
\* The fields of a trip that the prompt reads, held once as a row of trips
\* and once as the body of a guest request, and the prompt of each flow.

PromptStayAddresses == {None, Some(" "), Some("12 Rue Cler")}
PromptBudgets == {None, Some(0), Some(3333), Some(5000)}
PromptPreferences == {None, Some(<<>>), Some(<<"food">>), Some(<<"food", "art">>)}
PromptTravelers == {1, 2, 3}
PromptDates ==
    { << <<2025, 9, 1>>, <<2025, 9, 3>> >>,
      << <<2024, 2, 28>>, <<2024, 3, 1>> >>,
      << <<2025, 12, 31>>, <<2026, 1, 1>> >>,
      << <<2025, 9, 3>>, <<2025, 9, 1>> >>,
      << <<2025, 9, 1>>, <<2025, 9, 1>> >> }

PromptFields ==
    [ stay_address : PromptStayAddresses, budget_per_person : PromptBudgets,
      activity_preferences : PromptPreferences, num_travelers : PromptTravelers,
      dates : PromptDates ]

\* The row of trips with these fields (models/trip.py): dates are date
\* values, the preferences a JSON list or null.
StoredTrip(f) ==
    [ id |-> 1, user_id |-> 1, name |-> "Paris", city |-> "Paris",
      stay_address |-> f.stay_address,
      start_date |-> f.dates[1], end_date |-> f.dates[2],
      num_travelers |-> f.num_travelers,
      budget_per_person |-> f.budget_per_person,
      activity_preferences |-> f.activity_preferences ]

\* The GuestTripRequest with these fields: dates are ISO strings, the
\* preferences a list that is empty when none are given.
GuestTripRequest(f) ==
    [ name |-> "Paris", city |-> "Paris",
      stay_address |-> f.stay_address,
      start_date |-> FormatDate(f.dates[1]), end_date |-> FormatDate(f.dates[2]),
      num_travelers |-> f.num_travelers,
      budget_per_person |-> f.budget_per_person,
      activity_preferences |->
          IF IsNone(f.activity_preferences) THEN <<>> ELSE Val(f.activity_preferences) ]

InitPrompt ==
    /\ EmptyStore
    /\ \E f \in PromptFields :
          applied = [ fn |-> "generate_itinerary_prompt", fields |-> f,
                      persisted |-> None, guest |-> None ]

\* generate_itinerary: the prompt of a stored trip (lines 262-264).
BuildPersistedPrompt ==
    /\ applied.fn = "generate_itinerary_prompt"
    /\ IsNone(applied.persisted)
    /\ \E prompt \in {generate_itinerary_prompt(StoredTrip(applied.fields), Today)} :
          applied' = [applied EXCEPT !.persisted = Some(prompt)]
    /\ UNCHANGED <<users, trips, itineraries, nextTripId, nextItinId, issued, prev, resp, inflight>>

\* generate_itinerary_for_guest: the prompt of a guest request (lines 196-199).
BuildGuestPrompt ==
    /\ applied.fn = "generate_itinerary_prompt"
    /\ IsNone(applied.guest)
    /\ \E wrapped \in {GuestTripWrapper(GuestTripRequest(applied.fields))} :
          /\ ~IsNone(wrapped)
          /\ \E prompt \in {generate_itinerary_prompt(Val(wrapped), Today)} :
                applied' = [applied EXCEPT !.guest = Some(prompt)]
    /\ UNCHANGED <<users, trips, itineraries, nextTripId, nextItinId, issued, prev, resp, inflight>>

NextPrompt ==
    \/ BuildPersistedPrompt
    \/ BuildGuestPrompt

SpecPrompt == InitPrompt /\ [][NextPrompt]_vars

\* --------------------------------------------- the two flows side by side
\* The same trip fields, as a stored trip and as a guest request, and the
\* same reply of the model given to generate_itinerary and to
\* generate_itinerary_for_guest.

FlowFields ==
    {f \in PromptFields : f.num_travelers = 2 /\ f.stay_address = Some("12 Rue Cler")}

FlowReplies ==
    Replies \cup { Reply(FALSE, TRUE, <<LB, MEMBERS(3), RB>>),
                   Reply(FALSE, TRUE, <<LB, RB>>),
                   Reply(FALSE, TRUE, <<JVAL>>) }

\* The JSON body FastAPI makes of the dict the guest endpoint returns: a
\* date becomes its isoformat() string.
jsonable_encoder(plan_data) ==
    [ plan_data EXCEPT !.daily_plans =
        [i \in 1..Len(plan_data.daily_plans) |->
            [plan_data.daily_plans[i] EXCEPT !.day_date = FormatDate(@)]] ]

InitFlows ==
    /\ EmptyStore
    /\ \E f \in FlowFields, reply \in FlowReplies :
          applied = [ fn |-> "flows", fields |-> f, reply |-> reply,
                      persisted |-> None, guest |-> None ]

\* generate_itinerary on the stored trip, in a store that holds only it.
RunPersistedFlow ==
    /\ applied.fn = "flows"
    /\ IsNone(applied.persisted)
    /\ \E commit_ok \in BOOLEAN :
       \E out \in {generate_itinerary({StoredTrip(applied.fields)}, {}, 1, 1,
                                      applied.reply, commit_ok)} :
          /\ ~commit_ok => out.cause = "storage"
          /\ applied' = [applied EXCEPT !.persisted = Some(out)]
    /\ UNCHANGED <<users, trips, itineraries, nextTripId, nextItinId, issued, prev, resp, inflight>>

\* generate_itinerary_for_guest on the guest request.
RunGuestFlow ==
    /\ applied.fn = "flows"
    /\ IsNone(applied.guest)
    /\ \E out \in {generate_itinerary_for_guest(GuestTripRequest(applied.fields),
                                                applied.reply)} :
          applied' = [applied EXCEPT !.guest = Some(out)]
    /\ UNCHANGED <<users, trips, itineraries, nextTripId, nextItinId, issued, prev, resp, inflight>>

NextFlows ==
    \/ RunPersistedFlow
    \/ RunGuestFlow

SpecFlows == InitFlows /\ [][NextFlows]_vars

\* ------------------------------------------------------------ properties

\* What the row a request addressed by id was to the caller when the
\* request arrived.
TargetKind(rows, id, u) ==
    IF \E r \in rows : r.id = id /\ r.user_id = u THEN "owned"
    ELSE IF \E r \in rows : r.id = id THEN "foreign"
    ELSE "absent"

Largest(S) == IF S = {} THEN 0 ELSE CHOOSE v \in S : \A w \in S : v >= w

VersionsOfTrip(rows, t) == {r.version : r \in {x \in rows : x.trip_id = t}}

RowsOfTrip(rows, t) == {r \in rows : r.trip_id = t}

\* The last request was a generation for a stored trip that succeeded.
Generated == resp.op = "generate_trip_itinerary" /\ resp.status = 201

\* C1: a successful generation for a trip returns a row whose version is the
\* largest version among the itineraries stored for that trip when the
\* request arrived, plus one; it is 1 when the trip had none.
C1_VersionIsLatestPlusOne ==
    Generated =>
        /\ resp.items[1].version =
               Largest(VersionsOfTrip(prev.itineraries, resp.target)) + 1
        /\ RowsOfTrip(prev.itineraries, resp.target) = {} => resp.items[1].version = 1

\* A second generation for a trip whose only itinerary has version 1 made
\* version 2.
C1_SecondGenerationSeen ==
    /\ Generated
    /\ VersionsOfTrip(prev.itineraries, resp.target) = {1}
    /\ resp.items[1].version = 2

\* C2: the versions given out for a trip, deleted itineraries included, are
\* strictly increasing and start at 1.
C2_IssuedVersionsIncrease ==
    \A t \in TripIds :
        /\ Len(issued[t]) > 0 => issued[t][1] = 1
        /\ \A i, j \in 1..Len(issued[t]) : i < j => issued[t][i] < issued[t][j]

\* The fixed not-found response of each endpoint addressed by an id.
NotFoundDetail(op) ==
    IF op \in {"read_single_trip", "update_single_trip", "delete_single_trip"}
    THEN <<"Trip not found or not authorized">>
    ELSE IF op \in {"generate_trip_itinerary", "get_trip_itineraries"}
    THEN <<"Trip not found or you do not have access to this trip.">>
    ELSE <<"Itinerary not found or you do not have access to this itinerary.">>

TripAddressed ==
    {"read_single_trip", "update_single_trip", "delete_single_trip",
     "generate_trip_itinerary", "get_trip_itineraries"}

ItineraryAddressed == {"get_single_itinerary", "delete_itinerary"}

\* What the target of the last request was to its caller.
KindOfTarget ==
    IF resp.op \in TripAddressed THEN TargetKind(prev.trips, resp.target, resp.caller)
    ELSE IF resp.op \in ItineraryAddressed
    THEN TargetKind(prev.itineraries, resp.target, resp.caller)
    ELSE "none"

\* C3: a request that names a row of another user gets the response of a
\* request that names no row: the same status, the same fixed detail, no
\* resource, no prompt built, no model call, and the tables as they were.
C3_ForeignAnswersAsAbsent ==
    KindOfTarget \in {"foreign", "absent"} =>
        /\ resp = [Request(resp.op, resp.caller, resp.target)
                     EXCEPT !.status = 404, !.detail = NotFoundDetail(resp.op),
                            !.cause = "not_found"]
        /\ Tables = prev

\* A caller updated a trip of another user and was answered.
C3_ForeignTargetSeen ==
    /\ resp.op = "update_single_trip"
    /\ KindOfTarget = "foreign"

\* C4: no response carries a trip or an itinerary of another user than the
\* caller, and no request changes the trips or the itineraries of another
\* user than the caller.
C4_CrossUserIsolation ==
    resp.op # "none" =>
        /\ \A n \in 1..Len(resp.items) : resp.items[n].user_id = resp.caller
        /\ \A b \in Users \ {resp.caller} :
              /\ {t \in trips : t.user_id = b} = {t \in prev.trips : t.user_id = b}
              /\ {i \in itineraries : i.user_id = b}
                     = {i \in prev.itineraries : i.user_id = b}

\* A caller listed their trips while another user had a trip with an
\* itinerary.
C4_ListingBesideOthersSeen ==
    /\ resp.op = "read_user_trips"
    /\ resp.items # <<>>
    /\ \E i \in itineraries : i.user_id # resp.caller

\* C5: a guest generation, successful or failed, leaves the users, the
\* trips and the itineraries as they were, and a successful one returns
\* version 1, trip_id 0 and user_id 0.
C5_GuestWritesNothing ==
    resp.op = "generate_guest_itinerary" =>
        /\ Tables = prev
        /\ resp.status = 200 =>
              /\ Len(resp.items) = 1
              /\ resp.items[1].version = 1
              /\ resp.items[1].trip_id = 0
              /\ resp.items[1].user_id = 0

\* A guest generation succeeded while the store held a trip and an
\* itinerary.
C5_GuestSuccessSeen ==
    /\ resp.op = "generate_guest_itinerary"
    /\ resp.status = 200
    /\ trips # {}
    /\ itineraries # {}

C7_OneNewRowPerGeneration ==
    Generated =>
        LET row == resp.items[1]
        IN /\ itineraries = prev.itineraries \cup {row}
           /\ \A i \in prev.itineraries : i.id # row.id
           /\ row.version \notin VersionsOfTrip(prev.itineraries, row.trip_id)
           /\ Cardinality(RowsOfTrip(itineraries, row.trip_id))
                  = Cardinality(RowsOfTrip(prev.itineraries, row.trip_id)) + 1

\* A generation succeeded for a trip that held an itinerary with the very
\* same content: both are stored.
C7_SameContentTwiceSeen ==
    /\ Generated
    /\ \E i \in itineraries :
          /\ i.trip_id = resp.items[1].trip_id
          /\ i.plan_data = resp.items[1].plan_data
          /\ i.id # resp.items[1].id

\* C8: in both flows a reply that is no JSON and a reply that breaks the
\* content schema are answered with the validation status, a detail that
\* carries the diagnostic after its fixed head, and one model call.
C8_FormatAndSchemaReported ==
    resp.cause \in {"format", "schema"} =>
        /\ resp.status = 400
        /\ Len(resp.detail) >= 2
        /\ resp.calls = 1

\* The fixed message of the server-fault response of each generation
\* endpoint.
ServerFaultDetail(op) ==
    IF op = "generate_guest_itinerary"
    THEN <<"An error occurred while generating the guest itinerary.">>
    ELSE <<"An unexpected error occurred during itinerary generation. Please try again.">>

\* C9: a generation that fails for another reason than the format or the
\* schema of the reply is answered with the server-fault status and the
\* fixed message of the endpoint, in both endpoints.
C9_UnexpectedIsGenericFault ==
    resp.cause \in {"upstream", "no_text", "storage", "bad_date"} =>
        /\ resp.status = 500
        /\ resp.detail = ServerFaultDetail(resp.op)

\* C10: every prompt built states the number of days from start_date to
\* end_date plus one, and none is built for an end_date before the
\* start_date.
C10_DurationAndOrder ==
    ~IsNone(resp.prompt) =>
        LET prompt == Val(resp.prompt)
            start == Val(StrptimeDate(prompt.start_date))
            end == Val(StrptimeDate(prompt.end_date))
        IN /\ prompt.duration_days = ToOrdinal(end) - ToOrdinal(start) + 1
           /\ ToOrdinal(end) >= ToOrdinal(start)

\* C11: every stored trip ends on or after the day it starts and has at
\* least one traveler.
C11_StoredTripsWellFormed ==
    \A t \in trips :
        /\ ToOrdinal(t.end_date) >= ToOrdinal(t.start_date)
        /\ t.num_travelers >= 1

\* The places (from 1) of a token kind in a text.
Places(text, k) == {i \in 1..Len(text) : text[i].k = k}

Smallest(S) == CHOOSE i \in S : \A j \in S : i <= j

\* The extractor was run on a text.
Extracted == applied.fn \in {"clean_json_str", "json.loads"}

\* C12: on a text whose first '{' comes before its last '}', the candidate
\* is the text from the first '{' through the last '}', both included; one
\* {...} span between commentary is returned as it is.
C12_CandidateIsOuterSpan ==
    Extracted =>
        LET opens == Places(applied.text, "{")
            closes == Places(applied.text, "}")
        IN (opens # {} /\ closes # {} /\ Smallest(opens) < Largest(closes)) =>
              /\ applied.candidate
                     = SubSeq(applied.text, Smallest(opens), Largest(closes))
              /\ Head(applied.candidate) = LB
              /\ applied.candidate[Len(applied.candidate)] = RB
              /\ (Cardinality(opens) = 1 /\ Cardinality(closes) = 1
                  /\ Largest(closes) = Smallest(opens) + 2)
                     => applied.candidate
                            = <<LB, applied.text[Smallest(opens) + 1], RB>>

\* One JSON object between commentary was extracted as it is and loaded.
C12_SpanInCommentarySeen ==
    /\ applied.fn = "json.loads"
    /\ applied.text = <<TXT, LB, MEMBERS(1), RB>>
    /\ applied.candidate = <<LB, MEMBERS(1), RB>>
    /\ applied.parsed.ok

\* C13: on a text that has no '{' or has no '}', the candidate is the whole
\* text.
C13_FallbackIsWholeText ==
    (Extracted /\ (Places(applied.text, "{") = {} \/ Places(applied.text, "}") = {}))
        => applied.candidate = applied.text

\* A text with a '{' and no '}' went through the extractor.
C13_UnclosedBraceSeen ==
    /\ Extracted
    /\ applied.text = <<TXT, LB, MEMBERS(1), TXT>>
    /\ applied.candidate = applied.text

\* The validator was run on a dict.
Validated == applied.fn \in {"model_validate", "totals"}

\* An activity dict lacks a required field or breaks a bound.
BadActivity(a) ==
    \/ IsNone(a.time)
    \/ IsNone(a.name)
    \/ (~IsNone(a.estimated_duration_minutes) /\ Val(a.estimated_duration_minutes) < 5)
    \/ (~IsNone(a.cost_usd) /\ Val(a.cost_usd) < 0)

\* A daily plan dict lacks a required field, has a day_number below 1 or
\* holds a bad activity.
BadPlan(plan) ==
    \/ IsNone(plan.day_number)
    \/ IsNone(plan.day_date)
    \/ IsNone(plan.activities)
    \/ Val(plan.day_number) < 1
    \/ \E j \in 1..Len(Val(plan.activities)) : BadActivity(Val(plan.activities)[j])

\* A dict lacks a required field or breaks a bound, at any depth.
BadDocument(doc) ==
    \/ IsNone(doc.title)
    \/ IsNone(doc.duration_days)
    \/ IsNone(doc.daily_plans)
    \/ Val(doc.duration_days) < 1
    \/ \E i \in 1..Len(Val(doc.daily_plans)) : BadPlan(Val(doc.daily_plans)[i])

\* Every day_date of a dict is a date.
DatesParse(doc) ==
    \A i \in 1..Len(Val(doc.daily_plans)) :
        ~IsNone(PydanticDate(Val(Val(doc.daily_plans)[i].day_date)))

\* C14: the validator rejects, as a whole, every dict that lacks a required
\* field or has duration_days < 1, a day_number < 1, a present duration < 5
\* or a present cost < 0, and accepts every other dict whose dates parse,
\* absent durations and costs included.
C14_WholeDocumentOrNothing ==
    Validated =>
        /\ BadDocument(applied.doc) => (applied.errors # <<>> /\ IsNone(applied.content))
        /\ (~BadDocument(applied.doc) /\ DatesParse(applied.doc))
               => (applied.errors = <<>> /\ ~IsNone(applied.content))

\* A dict whose only defect is one activity of 2 minutes was rejected.
C14_ShortActivityRejectedSeen ==
    /\ applied.fn = "model_validate"
    /\ IsNone(applied.content)
    /\ applied.doc.title = Some("Two days")
    /\ applied.doc.duration_days = Some(1)
    /\ applied.doc.daily_plans
           = Some(<<Plan(Some(1), Some(Sep01),
                         Some(<<GoodAct, Act(Some("9:00 AM"), Some("Walk"), Some(2), None)>>))>>)

\* C15: the validator accepts no dict whose duration_days differs from the
\* number of its daily plans.
C15_DurationMatchesPlanCount ==
    (Validated /\ ~IsNone(applied.content)) =>
        Val(applied.content).duration_days = Len(Val(applied.content).daily_plans)

\* C16: the duration_days of the plan of every stored itinerary is the
\* number of days of its trip, end_date - start_date + 1.
C16_StoredDurationIsTripDuration ==
    \A i \in itineraries : \A t \in trips :
        t.id = i.trip_id =>
            i.plan_data.duration_days
                = ToOrdinal(t.end_date) - ToOrdinal(t.start_date) + 1

\* The daily plans are numbered 1, 2, ..., n in order, and each is dated
\* start + day_number - 1, on or before end.  ordinal gives the day count of
\* a day_date as the plan holds it.
PlansFollowTrip(plans, start, end, ordinal(_)) ==
    \A n \in 1..Len(plans) :
        /\ plans[n].day_number = n
        /\ ordinal(plans[n].day_date) = ToOrdinal(start) + n - 1
        /\ ordinal(plans[n].day_date) <= ToOrdinal(end)

OrdinalOfDate(d) == ToOrdinal(d)
OrdinalOfText(str) == ToOrdinal(Val(StrptimeDate(str)))

\* C17: in every stored itinerary and in every itinerary returned to a
\* guest, the daily plans are numbered 1..n in order and each day_date is
\* the start date of the trip plus day_number - 1, within the trip.
C17_PlansFollowTripDays ==
    /\ \A i \in itineraries : \A t \in trips :
          t.id = i.trip_id =>
              PlansFollowTrip(i.plan_data.daily_plans, t.start_date, t.end_date, OrdinalOfText)
    /\ (resp.op = "generate_guest_itinerary" /\ resp.status = 200) =>
          PlansFollowTrip(resp.items[1].plan_data.daily_plans,
                          Val(StrptimeDate(Val(resp.prompt).start_date)),
                          Val(StrptimeDate(Val(resp.prompt).end_date)),
                          OrdinalOfDate)

\* The activities of a plan as places <<day, k>>, and the amount that the
\* activity of a place contributes for field f: its value, 0 when missing.
ActivityPlaces(plans) ==
    UNION { {<<n, k>> : k \in 1..Len(plans[n].activities)} : n \in 1..Len(plans) }

Contribution(plans, pl, f) ==
    LET x == plans[pl[1]].activities[pl[2]][f]
    IN IF IsNone(x) THEN 0 ELSE Val(x)

RECURSIVE SumOfPlaces(_, _, _)
SumOfPlaces(plans, S, f) ==
    IF S = {} THEN 0
    ELSE LET pl == CHOOSE x \in S : TRUE
         IN Contribution(plans, pl, f) + SumOfPlaces(plans, S \ {pl}, f)

\* The totals of an itinerary are the sums over the activities of its plan.
TotalsAreSums(i) ==
    LET plans == i.plan_data.daily_plans
    IN /\ i.total_estimated_cost
              = SumOfPlaces(plans, ActivityPlaces(plans), "cost_usd")
       /\ i.total_estimated_duration_minutes
              = SumOfPlaces(plans, ActivityPlaces(plans), "estimated_duration_minutes")

\* C18: the totals of every stored itinerary and of every itinerary returned
\* to a guest are the sums of cost_usd and of estimated_duration_minutes over
\* all activities of all days of its plan, a missing value counting 0, and a
\* row that stays stored keeps the totals it had before the request.
C18_TotalsAreDerived ==
    /\ \A i \in itineraries : TotalsAreSums(i)
    /\ (resp.op = "generate_guest_itinerary" /\ resp.status = 200) =>
          TotalsAreSums(resp.items[1])
    /\ \A i \in itineraries : \A old \in prev.itineraries :
          old.id = i.id =>
              /\ i.total_estimated_cost = old.total_estimated_cost
              /\ i.total_estimated_duration_minutes
                     = old.total_estimated_duration_minutes

\* A guest got the plan with costs [10.00, none, 5.00] and durations
\* [30, 60, none] with totals 15.00 and 90, while a row stored before the
\* request holds the same plan with the same totals.
C18_FifteenAndNinetySeen ==
    /\ resp.op = "generate_guest_itinerary"
    /\ resp.status = 200
    /\ resp.items[1].total_estimated_cost = 1500
    /\ resp.items[1].total_estimated_duration_minutes = 90
    /\ Len(resp.items[1].plan_data.daily_plans) = 2
    /\ \E i \in itineraries :
          /\ i \in prev.itineraries
          /\ Len(i.plan_data.daily_plans) = 2
          /\ i.total_estimated_cost = 1500
          /\ i.total_estimated_duration_minutes = 90

\* Both prompts of a set of trip fields were built.
PromptsBuilt ==
    /\ applied.fn = "generate_itinerary_prompt"
    /\ ~IsNone(applied.persisted)
    /\ ~IsNone(applied.guest)

\* C19: for the same trip fields, held as a stored trip (date values,
\* preferences null or a list) and as a guest request (ISO date strings,
\* preferences a list, empty when none), the prompt of the guest flow is
\* the prompt of the persisted flow built on the same day.
C19_SamePromptInBothFlows ==
    PromptsBuilt => Val(applied.guest) = Val(applied.persisted)

\* Both prompts were built for a trip across the end of February 2024 with
\* a stay address, a budget and no preferences stored (null for the trip,
\* an empty list for the guest).
C19_NullAndEmptyPreferencesSeen ==
    /\ PromptsBuilt
    /\ applied.fields.dates = << <<2024, 2, 28>>, <<2024, 3, 1>> >>
    /\ applied.fields.activity_preferences = None
    /\ applied.fields.stay_address = Some("12 Rue Cler")
    /\ applied.fields.budget_per_person = Some(5000)
    /\ Val(applied.guest).stay_address_str # <<>>
    /\ Val(applied.guest).duration_days = 3

\* The amount of a budget sentence: the characters between the '$' and
\* " USD. ".
AmountOf(budget_str) == SubSeq(budget_str, 2, Len(budget_str) - 1)

\* The cents an amount written with two decimals stands for; -1 when it is
\* not digits, a point and two digits.
CentsOf(amount) ==
    LET n == Len(amount)
    IN IF /\ n >= 4
          /\ amount[n - 2] = "."
          /\ AllDigits(SubSeq(amount, 1, n - 3))
          /\ AllDigits(SubSeq(amount, n - 1, n))
       THEN DigitsVal(SubSeq(amount, 1, n - 3)) * 100 + DigitsVal(SubSeq(amount, n - 1, n))
       ELSE -1

\* What C20 asks of the prompt of a trip.
BudgetStated(trip, prompt) ==
    IF IsNone(trip.budget_per_person)
    THEN /\ prompt.budget_str = <<>>
         /\ prompt.budget_rule = <<>>
    ELSE /\ Len(prompt.budget_str) >= 3
         /\ Head(prompt.budget_str) = "Total trip budget for all travelers: $"
         /\ CentsOf(AmountOf(prompt.budget_str))
                = Val(trip.budget_per_person) * trip.num_travelers
         /\ (Val(trip.budget_per_person) = 5000 /\ trip.num_travelers = 2) =>
                AmountOf(prompt.budget_str) = <<"1", "0", "0", ".", "0", "0">>

\* C20: a prompt built for a trip with a budget states budget_per_person x
\* num_travelers with two decimals ("$100.00" for 50 and 2 travelers); a
\* prompt built for a trip without a budget states no amount and holds no
\* budget constraint.
C20_BudgetInPrompt ==
    (applied.fn = "generate_itinerary_prompt" /\ ~IsNone(applied.persisted)) =>
        BudgetStated(StoredTrip(applied.fields), Val(applied.persisted))

\* C21: after delete_single_trip succeeded for a trip, no stored itinerary
\* has the id of that trip, however many it had, and the stored itineraries
\* are those of the other trips as they were.
C21_DeleteTripCascades ==
    (resp.op = "delete_single_trip" /\ resp.status = 204) =>
        /\ RowsOfTrip(itineraries, resp.target) = {}
        /\ itineraries = prev.itineraries \ RowsOfTrip(prev.itineraries, resp.target)
        /\ \A t \in prev.trips :
              t.id # resp.target => RowsOfTrip(itineraries, t.id)
                                        = RowsOfTrip(prev.itineraries, t.id)

\* A trip with an itinerary was deleted while another trip kept its own.
C21_CascadeBesideOtherTripSeen ==
    /\ resp.op = "delete_single_trip"
    /\ resp.status = 204
    /\ RowsOfTrip(prev.itineraries, resp.target) # {}
    /\ itineraries # {}

\* Two itineraries went with their trip.
C21_TwoItinerariesDeletedSeen ==
    /\ resp.op = "delete_single_trip"
    /\ resp.status = 204
    /\ Cardinality(RowsOfTrip(prev.itineraries, resp.target)) = 2

\* C22: every stored itinerary has exactly one stored trip with its trip_id,
\* and its user_id is the user_id of that trip.
C22_ItineraryOfOneTripAndItsOwner ==
    \A i \in itineraries :
        /\ Cardinality({t \in trips : t.id = i.trip_id}) = 1
        /\ \A t \in trips : t.id = i.trip_id => t.user_id = i.user_id

\* User 2 holds a trip with an itinerary just after user 1 deleted a trip of
\* their own that had one too.
C22_AfterDeleteBesideOtherOwnerSeen ==
    /\ resp.op = "delete_single_trip"
    /\ resp.status = 204
    /\ resp.caller = 1
    /\ RowsOfTrip(prev.itineraries, resp.target) # {}
    /\ \E i \in itineraries : i.user_id = 2

\* The fields of a trip row that update_trip never writes.
FixedTripFields == {"id", "user_id", "city", "stay_address"}

\* C24: a successful update leaves id, user_id, city and stay_address of the
\* trip as they were, also when the request sets city or stay_address; the
\* other fields the request sets take the values of the request, and those
\* it does not set stay as they were; no other trip changes.
C24_UpdateFrame ==
    (resp.op = "update_single_trip" /\ resp.status = 200) =>
        \E old \in prev.trips : \E trip_update \in TripUpdateInputs :
            LET new == resp.items[1]
            IN /\ old.id = resp.target
               /\ new \in trips
               /\ trips \ {new} = prev.trips \ {old}
               /\ \A f \in DOMAIN old :
                     new[f] = IF f \in DOMAIN trip_update /\ f \notin FixedTripFields
                              THEN trip_update[f] ELSE old[f]
               /\ \A f \in FixedTripFields : new[f] = old[f]

\* An update that set city, stay_address and end_date changed the end_date
\* of a trip in Paris and left it in Paris at its address.
C24_CityInRequestIgnoredSeen ==
    /\ resp.op = "update_single_trip"
    /\ resp.status = 200
    /\ resp.items[1].city = "Paris"
    /\ resp.items[1].stay_address = Some("12 Rue Cler")
    /\ resp.items[1].end_date = <<2025, 8, 31>>
    /\ \E old \in prev.trips : old.id = resp.target /\ old.end_date = <<2025, 9, 3>>
    /\ \E trip_update \in TripUpdateInputs :
          {"city", "stay_address"} \subseteq DOMAIN trip_update

\* C25: delete_itinerary answers 204 exactly when the caller owns the
\* itinerary; it then removes that row and nothing else (the other
\* itineraries stay as they were, versions included, and so do trips and
\* users); otherwise it answers 404 and the tables stay as they were.
C25_DeleteItineraryFrame ==
    resp.op = "delete_itinerary" =>
        IF TargetKind(prev.itineraries, resp.target, resp.caller) = "owned"
        THEN /\ resp.status = 204
             /\ itineraries = {i \in prev.itineraries : i.id # resp.target}
             /\ Cardinality(itineraries) = Cardinality(prev.itineraries) - 1
             /\ trips = prev.trips
             /\ users = prev.users
        ELSE /\ resp.status = 404
             /\ resp.detail = NotFoundDetail(resp.op)
             /\ Tables = prev

\* Version 1 of a trip was deleted and version 2 stayed version 2.
C25_VersionTwoKeptSeen ==
    /\ resp.op = "delete_itinerary"
    /\ resp.status = 204
    /\ \E gone \in prev.itineraries :
          /\ gone.id = resp.target
          /\ gone.version = 1
          /\ \E i \in itineraries : i.trip_id = gone.trip_id /\ i.version = 2

\* The itinerary of another user was addressed and stayed.
C25_ForeignItineraryKeptSeen ==
    /\ resp.op = "delete_itinerary"
    /\ resp.status = 404
    /\ TargetKind(prev.itineraries, resp.target, resp.caller) = "foreign"

\* The rows of a sequence, as a set.
Range(seq) == {seq[n] : n \in 1..Len(seq)}

\* C26: for a trip of the caller, get_trip_itineraries returns each stored
\* itinerary of the trip once and no other row, by version from highest to
\* lowest, the itinerary generated last first.
C26_ListingByVersionDescending ==
    (resp.op = "get_trip_itineraries" /\ resp.status = 200) =>
        /\ Range(resp.items) = RowsOfTrip(itineraries, resp.target)
        /\ Len(resp.items) = Cardinality(RowsOfTrip(itineraries, resp.target))
        /\ \A m, n \in 1..Len(resp.items) :
              m < n => resp.items[m].version > resp.items[n].version
        /\ \A n \in 1..Len(resp.items) : resp.items[1].id >= resp.items[n].id

\* A listing returned versions 2 and 1, in that order.
C26_TwoVersionsListedSeen ==
    /\ resp.op = "get_trip_itineraries"
    /\ resp.status = 200
    /\ Len(resp.items) = 2
    /\ resp.items[1].version = 2
    /\ resp.items[2].version = 1

\* C30: the example schema of every prompt declares the duration of the
\* trip, dates its first day on start_date, shows no more daily plans than
\* the trip has days, and dates each of them within [start_date, end_date].
C30_ExampleWithinTrip ==
    (applied.fn = "generate_itinerary_prompt" /\ ~IsNone(applied.persisted)) =>
        LET prompt == Val(applied.persisted)
            start == applied.fields.dates[1]
            end == applied.fields.dates[2]
        IN /\ prompt.example_duration_days = ToOrdinal(end) - ToOrdinal(start) + 1
           /\ prompt.example_day_dates[1] = FormatDate(start)
           /\ Len(prompt.example_day_dates) <= prompt.example_duration_days
           /\ \A n \in 1..Len(prompt.example_day_dates) :
                 /\ OrdinalOfText(prompt.example_day_dates[n]) >= ToOrdinal(start)
                 /\ OrdinalOfText(prompt.example_day_dates[n]) <= ToOrdinal(end)

\* Both flows were run on the same fields and the same reply.
FlowsRun ==
    /\ applied.fn = "flows"
    /\ ~IsNone(applied.persisted)
    /\ ~IsNone(applied.guest)

\* The persisted flow got a validated content out of the reply: it returned
\* a row, or failed only when committing it.
ContentValidated(out) == out.cause \in {"none", "storage"}

\* C23: on the same trip fields and the same reply, the guest flow returns
\* exactly when the persisted flow gets a validated content out of the
\* reply; when both return, the plan_data the guest is sent is the
\* plan_data stored, and the two totals are the same.
C23_FlowsAgree ==
    FlowsRun =>
        LET p == Val(applied.persisted)
            g == Val(applied.guest)
        IN /\ (g.exc = NoExc) <=> ContentValidated(p)
           /\ (g.exc = NoExc /\ p.exc = NoExc) =>
                 /\ jsonable_encoder(Val(g.result).plan_data) = Val(p.result).plan_data
                 /\ Val(g.result).total_estimated_cost
                        = Val(p.result).total_estimated_cost
                 /\ Val(g.result).total_estimated_duration_minutes
                        = Val(p.result).total_estimated_duration_minutes

\* Both flows returned the one-day plan whose only activity costs 0.
C23_FreeActivityInBothFlowsSeen ==
    /\ FlowsRun
    /\ Val(applied.guest).exc = NoExc
    /\ Val(applied.persisted).exc = NoExc
    /\ Val(Val(applied.guest).result).plan_data.daily_plans[1].activities[1].cost_usd
           = Some(0)
    /\ Val(Val(applied.persisted).result).total_estimated_cost = 0
    /\ Val(Val(applied.persisted).result).total_estimated_duration_minutes = 5

\* Both flows failed on the same reply that breaks the schema.
C23_BothRejectSeen ==
    /\ FlowsRun
    /\ Val(applied.guest).cause = "schema"
    /\ Val(applied.persisted).cause = "schema"

\* C27: no two stored itineraries of one trip have the same version, also
\* when generations for the trip are served at the same time.
C27_VersionsDistinctPerTrip ==
    \A i, j \in itineraries :
        (i.trip_id = j.trip_id /\ i.version = j.version) => i = j

\* C28: every stored itinerary has a stored trip with its trip_id, also when
\* the trip is deleted while a generation for it is between loading the
\* trip and inserting the itinerary.
C28_NoOrphanItinerary ==
    \A i \in itineraries : \E t \in trips : t.id = i.trip_id

\* C29: a generation request that is answered before any prompt was built,
\* because the trip is not there, is answered 404 with the not-found detail,
\* whether the trip was missing at the ownership check or went missing
\* between the check and the load of the service.
C29_AbsentTripIsNotFound ==
    (resp.op = "generate_trip_itinerary" /\ IsNone(resp.prompt)) =>
        /\ resp.status = 404
        /\ resp.detail = NotFoundDetail(resp.op)

====
